---- MODULE Spec2Model ----
(***************************************************************************)
(* whidl: the nand2tetris test-script driver (src/src/test_script.rs) and  *)
(* the HDL parser and resolver (src/src/parser.rs).                        *)
(*                                                                         *)
(* Strings the code inspects character by character (literals, chip names) *)
(* are sequences of one-character strings.  An Option<bool> bit is 0, 1 or *)
(* None.  A BusMap is a function from the names of its buses to sequences  *)
(* of such bits, in the order the vector was handed to insert_option.      *)
(***************************************************************************)
EXTENDS Integers, Sequences, FiniteSets, TLC

VARIABLES
    \* ---- run_test: what it is given
    chip,         \* the chip the test script loads
    vocab,        \* the ports and literals the script's Set instructions use
    output_list,  \* test_script.output_list: the number system of each column
    cmp_file,     \* the compare file: its header's port names and its data lines
    plan,         \* test_script.steps: the number of instructions of each step
    \* ---- run_test: its locals
    status,       \* start | running | passed | failed | error | panic
    expected,     \* the rows read_cmp returned
    inputs, outputs, cmp_idx, failures,
    stepIdx,      \* the step being run (0 before the first)
    insIdx,       \* instructions of that step already run
    \* ---- the simulator
    signals,      \* the nets as the last settle left them
    shadow,       \* the DFF state, changed by tick alone
    \* ---- observers
    last,         \* the instruction run last
    calls,        \* the simulator calls that instruction made, in order
    mismatch,     \* some Output found expected </= outputs
    scenario,     \* how far the run has followed DffScenario (-1: it left it)
    \* ---- parse and get_hdl
    source,       \* the tokens the scanner yields for the HDL text
    chip_name,    \* the chip name get_hdl is asked for, character by character
    provider_ok,  \* whether the provider can read <name>.hdl
    op,           \* the operation that ran: parse | get_hdl ("" before)
    result,       \* what it returned
    provider_calls \* the file names the provider was asked for, in order

driver_vars == <<chip, vocab, output_list, cmp_file, plan, status, expected,
                 inputs, outputs, cmp_idx, failures, stepIdx, insIdx,
                 signals, shadow, last, calls, mismatch, scenario>>

parser_vars == <<source, chip_name, provider_ok, op, result, provider_calls>>

vars == <<driver_vars, parser_vars>>

-----------------------------------------------------------------------------
(* Bounds *)
MaxSteps == 3
MaxInstr == 3
MaxLines == 2

(* Option<bool>::None *)
None == -1
(* the bits of the u16 a decimal literal is stored into *)
WordBits == 16

-----------------------------------------------------------------------------
(* Vec helpers *)
Reverse(s) == [i \in 1..Len(s) |-> s[Len(s) + 1 - i]]
Truncate(s, n) == IF Len(s) <= n THEN s ELSE SubSeq(s, 1, n)

Nones(w) == [i \in 1..w |-> None]

(* A literal of the test script or a cell of the compare file *)
InputValue(ns, chars) == [number_system |-> ns, value |-> chars]
NoValue == InputValue("", <<>>)

Digits == {"0", "1", "2", "3", "4", "5", "6", "7", "8", "9"}
DigitVal(c) ==
    CASE c = "0" -> 0 [] c = "1" -> 1 [] c = "2" -> 2 [] c = "3" -> 3
      [] c = "4" -> 4 [] c = "5" -> 5 [] c = "6" -> 6 [] c = "7" -> 7
      [] c = "8" -> 8 [] c = "9" -> 9

RECURSIVE DigitsValue(_)
DigitsValue(s) ==
    IF s = <<>> THEN 0
    ELSE 10 * DigitsValue(SubSeq(s, 1, Len(s) - 1)) + DigitVal(s[Len(s)])

(* str::parse::<i16>: an optional sign, then one or more digits, in range *)
ParseI16(s) ==
    LET signed == Len(s) > 0 /\ s[1] \in {"-", "+"}
        digits == IF signed THEN Tail(s) ELSE s
        wellFormed == digits # <<>> /\ \A i \in 1..Len(digits) : digits[i] \in Digits
        v == IF s[1] = "-" THEN 0 - DigitsValue(digits) ELSE DigitsValue(digits)
    IN  IF ~wellFormed THEN [ok |-> FALSE, val |-> 0]
        ELSE IF v < 0 - 2^(WordBits - 1) \/ v > 2^(WordBits - 1) - 1
             THEN [ok |-> FALSE, val |-> 0]
             ELSE [ok |-> TRUE, val |-> v]

(* the 16 bits of raw[0] after store_le(num), read through view_bits::<Msb0> *)
DecimalBits(num) ==
    LET raw == num % 2^WordBits
    IN  [i \in 1..WordBits |-> (raw \div 2^(WordBits - i)) % 2]

BinaryBits(chars) == [i \in 1..Len(chars) |-> IF chars[i] = "1" THEN 1 ELSE 0]

test_input_to_bitvec(input) ==
    CASE input.number_system = "Decimal" ->
            LET p == ParseI16(input.value)
            IN  IF p.ok THEN [panic |-> FALSE, bits |-> DecimalBits(p.val)]
                ELSE [panic |-> TRUE, bits |-> <<>>]
      [] input.number_system = "Binary" ->
            IF \A i \in 1..Len(input.value) : input.value[i] \in {"0", "1"}
            THEN [panic |-> FALSE, bits |-> BinaryBits(input.value)]
            ELSE [panic |-> TRUE, bits |-> <<>>]
      [] input.number_system = "Hex" -> [panic |-> TRUE, bits |-> <<>>]
      [] input.number_system = "String" -> [panic |-> TRUE, bits |-> <<>>]

bitvec_to_vecbool(bv) == [i \in 1..Len(bv) |-> bv[i]]

(* reverse, truncate(width), reverse: what Set and read_cmp do to the bits *)
FitToWidth(bits, width) == Reverse(Truncate(Reverse(bitvec_to_vecbool(bits)), width))

-----------------------------------------------------------------------------
(* BusMap *)
EmptyBusMap == [n \in {} |-> <<>>]

create_bus(bm, name, width) ==
    [n \in DOMAIN bm \cup {name} |-> IF n = name THEN Nones(width) ELSE bm[n]]

insert_option(bm, name, values) ==
    [n \in DOMAIN bm \cup {name} |-> IF n = name THEN values ELSE bm[n]]

(* a <= b: every defined bit of a is the same bit of b *)
PartialLe(a, b) ==
    \A n \in DOMAIN a : \A i \in 1..Len(a[n]) :
        a[n][i] # None => (n \in DOMAIN b /\ i <= Len(b[n]) /\ b[n][i] = a[n][i])

-----------------------------------------------------------------------------
(* The chips under test and the simulator.  REG is DFFs side by side, one  *)
(* per bit of `in`; REG of width 1 is the chip that is a single DFF.        *)
DffChip == [kind |-> "REG", width |-> 1]

ChipPorts(c) ==
    IF c.kind = "NAND"
    THEN [n \in {"a", "b", "out"} |-> 1]
    ELSE [n \in {"in", "out"} |-> c.width]

ports == ChipPorts(chip)

InputPorts(c) == IF c.kind = "NAND" THEN {"a", "b"} ELSE {"in"}

NandBit(x, y) ==
    IF x = None \/ y = None THEN None ELSE IF x = 1 /\ y = 1 THEN 0 ELSE 1

FirstBit(bus) == IF Len(bus) = 0 THEN None ELSE bus[1]

(* settle: the primary inputs as given (undriven when not set), the DFF     *)
(* outputs from the shadow, NAND computed once its inputs are defined       *)
Settle(c, inp, sh) ==
    LET driven(n) == IF n \in DOMAIN inp THEN inp[n] ELSE Nones(ChipPorts(c)[n])
    IN  IF c.kind = "NAND"
        THEN [n \in {"a", "b", "out"} |->
                IF n = "out"
                THEN <<NandBit(FirstBit(driven("a")), FirstBit(driven("b")))>>
                ELSE driven(n)]
        ELSE [n \in {"in", "out"} |-> IF n = "out" THEN sh ELSE driven(n)]

(* tick: each DFF's input, as the last settle left it, becomes its shadow *)
Latch(c, sig, sh) == IF c.kind = "NAND" THEN sh ELSE sig["in"]

InitialSignals(c) == [n \in DOMAIN ChipPorts(c) |-> Nones(ChipPorts(c)[n])]

-----------------------------------------------------------------------------
(* read_cmp *)
RECURSIVE SumLen(_)
SumLen(strs) == IF strs = <<>> THEN 0 ELSE Len(Head(strs)) + SumLen(Tail(strs))

(* the characters of a line |c1|c2|...| once its whitespace is removed *)
LineLen(cells) == SumLen(cells) + Len(cells) + 1

IsWildcard(v) == \E k \in 1..Len(v) : v[k] = "*"

RECURSIVE read_cmp_cells(_, _, _, _, _, _)

(* read_cmp_cells that converts the cells of a String column as well *)
read_cmp_cells_no_skip(cells, i, step_result, olist, port_order, prts) ==
    IF i >= Len(cells) THEN [kind |-> "ok", row |-> step_result]
    ELSE
      LET v == cells[i + 1]
          next(row) == read_cmp_cells(cells, i + 1, row, olist, port_order, prts)
      IN  IF i >= Len(olist) THEN [kind |-> "error", row |-> step_result]
          ELSE IF IsWildcard(v) THEN next(step_result)
          ELSE
            LET conv == test_input_to_bitvec(
                            InputValue(IF olist[i + 1] = "String" THEN "Binary"
                                       ELSE olist[i + 1], v))
            IN  IF conv.panic THEN [kind |-> "panic", row |-> step_result]
                ELSE IF i >= Len(port_order) THEN [kind |-> "error", row |-> step_result]
                ELSE IF port_order[i + 1] \notin DOMAIN prts
                     THEN [kind |-> "error", row |-> step_result]
                ELSE
                  LET name == port_order[i + 1]
                      value == FitToWidth(conv.bits, prts[name])
                  IN  next(insert_option(create_bus(step_result, name, Len(value)),
                                         name, value))

read_cmp_cells(cells, i, step_result, olist, port_order, prts) ==
    IF i >= Len(cells) THEN [kind |-> "ok", row |-> step_result]
    ELSE
      LET v == cells[i + 1]
          next(row) == read_cmp_cells(cells, i + 1, row, olist, port_order, prts)
      IN  IF i >= Len(olist) THEN [kind |-> "error", row |-> step_result]
          ELSE IF olist[i + 1] = "String" THEN next(step_result)
          ELSE IF IsWildcard(v) THEN next(step_result)
          ELSE
            LET conv == test_input_to_bitvec(InputValue(olist[i + 1], v))
            IN  IF conv.panic THEN [kind |-> "panic", row |-> step_result]
                ELSE IF i >= Len(port_order) THEN [kind |-> "error", row |-> step_result]
                ELSE IF port_order[i + 1] \notin DOMAIN prts
                     THEN [kind |-> "error", row |-> step_result]
                ELSE
                  LET name == port_order[i + 1]
                      value == FitToWidth(conv.bits, prts[name])
                  IN  next(insert_option(create_bus(step_result, name, Len(value)),
                                         name, value))

RECURSIVE read_cmp_lines(_, _, _, _, _, _)

(* read_cmp_lines where an empty line makes a row of its own *)
read_cmp_lines_empty_rows(lines, k, res, olist, port_order, prts) ==
    IF k > Len(lines) THEN [kind |-> "ok", rows |-> res]
    ELSE
      LET l == lines[k]
      IN  IF l.kind = "empty"
          THEN read_cmp_lines(lines, k + 1, Append(res, EmptyBusMap),
                              olist, port_order, prts)
          ELSE IF l.kind = "blank" \/ LineLen(l.cells) < 3
               THEN [kind |-> "error", rows |-> <<>>]
          ELSE
            LET r == read_cmp_cells(l.cells, 0, EmptyBusMap, olist, port_order, prts)
            IN  IF r.kind # "ok" THEN [kind |-> r.kind, rows |-> <<>>]
                ELSE read_cmp_lines(lines, k + 1, Append(res, r.row),
                                    olist, port_order, prts)

read_cmp_lines(lines, k, res, olist, port_order, prts) ==
    IF k > Len(lines) THEN [kind |-> "ok", rows |-> res]
    ELSE
      LET l == lines[k]
      IN  IF l.kind = "empty"
          THEN read_cmp_lines(lines, k + 1, res, olist, port_order, prts)
          ELSE IF l.kind = "blank" \/ LineLen(l.cells) < 3
               THEN [kind |-> "error", rows |-> <<>>]
          ELSE
            LET r == read_cmp_cells(l.cells, 0, EmptyBusMap, olist, port_order, prts)
            IN  IF r.kind # "ok" THEN [kind |-> r.kind, rows |-> <<>>]
                ELSE read_cmp_lines(lines, k + 1, Append(res, r.row),
                                    olist, port_order, prts)

read_cmp(file, olist, prts) ==
    IF LineLen(file.header) < 3 THEN [kind |-> "error", rows |-> <<>>]
    ELSE read_cmp_lines(file.lines, 1, <<>>, olist, file.header, prts)

-----------------------------------------------------------------------------
(* run_test *)
Instr(kind, port, value) == [kind |-> kind, port |-> port, value |-> value]

Decimal(chars) == InputValue("Decimal", chars)
Binary(chars) == InputValue("Binary", chars)

(* set in 1, tick, tock, set in 0, tock, tick, tock *)
DffScenario ==
    << Instr("Set", "in", Decimal(<<"1">>)), Instr("Tick", "", NoValue),
       Instr("Tock", "", NoValue), Instr("Set", "in", Decimal(<<"0">>)),
       Instr("Tock", "", NoValue), Instr("Tick", "", NoValue),
       Instr("Tock", "", NoValue) >>

Advance(k, ins) ==
    IF k >= 0 /\ k < Len(DffScenario) /\ DffScenario[k + 1] = ins THEN k + 1 ELSE 0 - 1

(* what run_test is given, and what it never touches *)
given == <<chip, vocab, output_list, cmp_file, plan, parser_vars>>

Running == status = "running"
InStep == IF stepIdx = 0 THEN FALSE ELSE insIdx < plan[stepIdx]
AtStepEnd == IF stepIdx = 0 THEN TRUE ELSE insIdx = plan[stepIdx]

(* lines 229-237: read the compare file, then the loop's locals *)
ReadCmp ==
    /\ status = "start"
    /\ LET r == read_cmp(cmp_file, output_list, ports)
       IN  /\ status' = IF r.kind = "ok" THEN "running" ELSE r.kind
           /\ expected' = r.rows
    /\ last' = Instr("ReadCmp", "", NoValue)
    /\ UNCHANGED <<given, inputs, outputs, cmp_idx, failures, stepIdx, insIdx,
                   signals, shadow, calls, mismatch, scenario>>

(* NextStep that also starts the step with empty inputs *)
NextStepFreshInputs ==
    /\ Running /\ AtStepEnd /\ stepIdx < Len(plan)
    /\ stepIdx' = stepIdx + 1
    /\ insIdx' = 0
    /\ outputs' = EmptyBusMap
    /\ inputs' = EmptyBusMap
    /\ last' = Instr("Step", "", NoValue)
    /\ calls' = <<>>
    /\ UNCHANGED <<given, status, expected, cmp_idx, failures,
                   signals, shadow, mismatch, scenario>>

(* NextStep that carries the outputs of the step before into the new step *)
NextStepStaleOutputs ==
    /\ Running /\ AtStepEnd /\ stepIdx < Len(plan)
    /\ stepIdx' = stepIdx + 1
    /\ insIdx' = 0
    /\ last' = Instr("Step", "", NoValue)
    /\ calls' = <<>>
    /\ UNCHANGED <<given, status, expected, inputs, outputs, cmp_idx, failures,
                   signals, shadow, mismatch, scenario>>

(* lines 238-239: the next step starts with outputs = BusMap::new() *)
NextStep ==
    /\ Running /\ AtStepEnd /\ stepIdx < Len(plan)
    /\ stepIdx' = stepIdx + 1
    /\ insIdx' = 0
    /\ outputs' = EmptyBusMap
    /\ last' = Instr("Step", "", NoValue)
    /\ calls' = <<>>
    /\ UNCHANGED <<given, status, expected, inputs, cmp_idx, failures,
                   signals, shadow, mismatch, scenario>>

SetInstr(port, value) ==
    /\ Running /\ InStep
    /\ last' = Instr("Set", port, value)
    /\ calls' = <<>>
    /\ IF (IF port \in DOMAIN ports THEN test_input_to_bitvec(value).panic ELSE TRUE)
       THEN /\ status' = "panic"
            /\ UNCHANGED <<inputs, insIdx, scenario>>
       ELSE LET bool_values == FitToWidth(test_input_to_bitvec(value).bits, ports[port])
            IN  /\ inputs' = insert_option(create_bus(inputs, port, Len(bool_values)),
                                           port, bool_values)
                /\ insIdx' = insIdx + 1
                /\ scenario' = Advance(scenario, Instr("Set", port, value))
                /\ status' = status
    /\ UNCHANGED <<given, expected, outputs, cmp_idx, failures, stepIdx,
                   signals, shadow, mismatch>>

Set == \E port \in vocab.ports, value \in vocab.lits : SetInstr(port, value)

(* simulate fails with `?`: the error is returned *)
Eval ==
    /\ Running /\ InStep
    /\ last' = Instr("Eval", "", NoValue)
    /\ calls' = <<"simulate">>
    /\ \E ok \in BOOLEAN :
         IF ok
         THEN /\ outputs' = Settle(chip, inputs, shadow)
              /\ signals' = Settle(chip, inputs, shadow)
              /\ insIdx' = insIdx + 1
              /\ scenario' = Advance(scenario, Instr("Eval", "", NoValue))
              /\ status' = status
         ELSE /\ status' = "error"
              /\ UNCHANGED <<outputs, signals, insIdx, scenario>>
    /\ UNCHANGED <<given, expected, inputs, cmp_idx, failures, stepIdx,
                   shadow, mismatch>>

(* Output with the comparison the other way round *)
OutputReversed ==
    /\ Running /\ InStep
    /\ last' = Instr("Output", "", NoValue)
    /\ calls' = <<>>
    /\ IF cmp_idx >= Len(expected)
       THEN /\ status' = "panic"
            /\ UNCHANGED <<cmp_idx, failures, mismatch, insIdx>>
       ELSE /\ failures' = IF ~PartialLe(outputs, expected[cmp_idx + 1])
                           THEN failures + 1 ELSE failures
            /\ mismatch' = (mismatch \/ ~PartialLe(outputs, expected[cmp_idx + 1]))
            /\ cmp_idx' = cmp_idx + 1
            /\ insIdx' = insIdx + 1
            /\ status' = status
    /\ UNCHANGED <<given, expected, inputs, outputs, stepIdx, signals, shadow, scenario>>

(* Output where the first mismatch ends the run *)
OutputStopsAtMismatch ==
    /\ Running /\ InStep
    /\ last' = Instr("Output", "", NoValue)
    /\ calls' = <<>>
    /\ IF cmp_idx >= Len(expected)
       THEN /\ status' = "panic"
            /\ UNCHANGED <<cmp_idx, failures, mismatch, insIdx>>
       ELSE /\ failures' = IF ~PartialLe(expected[cmp_idx + 1], outputs)
                           THEN failures + 1 ELSE failures
            /\ mismatch' = (mismatch \/ ~PartialLe(expected[cmp_idx + 1], outputs))
            /\ cmp_idx' = cmp_idx + 1
            /\ insIdx' = insIdx + 1
            /\ status' = IF ~PartialLe(expected[cmp_idx + 1], outputs)
                         THEN "failed" ELSE status
    /\ UNCHANGED <<given, expected, inputs, outputs, stepIdx, signals, shadow, scenario>>

Output ==
    /\ Running /\ InStep
    /\ last' = Instr("Output", "", NoValue)
    /\ calls' = <<>>
    /\ IF cmp_idx >= Len(expected)
       THEN /\ status' = "panic"
            /\ UNCHANGED <<cmp_idx, failures, mismatch, insIdx>>
       ELSE /\ failures' = IF ~PartialLe(expected[cmp_idx + 1], outputs)
                           THEN failures + 1 ELSE failures
            /\ mismatch' = (mismatch \/ ~PartialLe(expected[cmp_idx + 1], outputs))
            /\ cmp_idx' = cmp_idx + 1
            /\ insIdx' = insIdx + 1
            /\ status' = status
    /\ UNCHANGED <<given, expected, inputs, outputs, stepIdx, signals, shadow, scenario>>

(* Tick that latches the DFFs before it settles, as Tock does *)
TickLatching ==
    /\ Running /\ InStep
    /\ last' = Instr("Tick", "", NoValue)
    /\ calls' = <<"tick", "simulate">>
    /\ \E ok \in BOOLEAN :
         IF ok
         THEN /\ shadow' = Latch(chip, signals, shadow)
              /\ outputs' = Settle(chip, inputs, Latch(chip, signals, shadow))
              /\ signals' = Settle(chip, inputs, Latch(chip, signals, shadow))
              /\ insIdx' = insIdx + 1
              /\ scenario' = Advance(scenario, Instr("Tick", "", NoValue))
              /\ status' = status
         ELSE /\ status' = "panic"
              /\ UNCHANGED <<outputs, signals, shadow, insIdx, scenario>>
    /\ UNCHANGED <<given, expected, inputs, cmp_idx, failures, stepIdx, mismatch>>

(* Tock that settles and never latches *)
TockSettleOnly ==
    /\ Running /\ InStep
    /\ last' = Instr("Tock", "", NoValue)
    /\ calls' = <<"tick", "simulate">>
    /\ \E ok \in BOOLEAN :
         IF ok
         THEN /\ outputs' = Settle(chip, inputs, shadow)
              /\ signals' = Settle(chip, inputs, shadow)
              /\ insIdx' = insIdx + 1
              /\ scenario' = Advance(scenario, Instr("Tock", "", NoValue))
              /\ status' = status
         ELSE /\ status' = "panic"
              /\ UNCHANGED <<outputs, signals, insIdx, scenario>>
    /\ UNCHANGED <<given, expected, inputs, cmp_idx, failures, stepIdx,
                   shadow, mismatch>>

(* Finish that lets one mismatch through *)
FinishLenient ==
    /\ Running /\ AtStepEnd /\ stepIdx = Len(plan)
    /\ last' = Instr("Finish", "", NoValue)
    /\ calls' = <<>>
    /\ status' = IF failures > 1 THEN "failed" ELSE "passed"
    /\ UNCHANGED <<given, expected, inputs, outputs, cmp_idx, failures, stepIdx,
                   insIdx, signals, shadow, mismatch, scenario>>

(* simulate fails with expect: the thread panics *)
Tick ==
    /\ Running /\ InStep
    /\ last' = Instr("Tick", "", NoValue)
    /\ calls' = <<"simulate">>
    /\ \E ok \in BOOLEAN :
         IF ok
         THEN /\ outputs' = Settle(chip, inputs, shadow)
              /\ signals' = Settle(chip, inputs, shadow)
              /\ insIdx' = insIdx + 1
              /\ scenario' = Advance(scenario, Instr("Tick", "", NoValue))
              /\ status' = status
         ELSE /\ status' = "panic"
              /\ UNCHANGED <<outputs, signals, insIdx, scenario>>
    /\ UNCHANGED <<given, expected, inputs, cmp_idx, failures, stepIdx,
                   shadow, mismatch>>

Tock ==
    /\ Running /\ InStep
    /\ last' = Instr("Tock", "", NoValue)
    /\ \E tickOk \in BOOLEAN, simOk \in BOOLEAN :
         IF ~tickOk
         THEN /\ calls' = <<"tick">>
              /\ status' = "panic"
              /\ UNCHANGED <<outputs, signals, shadow, insIdx, scenario>>
         ELSE /\ calls' = <<"tick", "simulate">>
              /\ shadow' = Latch(chip, signals, shadow)
              /\ IF simOk
                 THEN /\ outputs' = Settle(chip, inputs, Latch(chip, signals, shadow))
                      /\ signals' = Settle(chip, inputs, Latch(chip, signals, shadow))
                      /\ insIdx' = insIdx + 1
                      /\ scenario' = Advance(scenario, Instr("Tock", "", NoValue))
                      /\ status' = status
                 ELSE /\ status' = "panic"
                      /\ UNCHANGED <<outputs, signals, insIdx, scenario>>
    /\ UNCHANGED <<given, expected, inputs, cmp_idx, failures, stepIdx, mismatch>>

(* lines 279-295; steps.len() - failures is a usize subtraction, which a    *)
(* build with overflow checks turns into a panic and one without wraps      *)
Finish ==
    /\ Running /\ AtStepEnd /\ stepIdx = Len(plan)
    /\ last' = Instr("Finish", "", NoValue)
    /\ calls' = <<>>
    /\ \E overflow_checks \in BOOLEAN :
         status' = IF failures > 0
                   THEN IF failures > Len(plan) /\ overflow_checks
                        THEN "panic" ELSE "failed"
                   ELSE "passed"
    /\ UNCHANGED <<given, expected, inputs, outputs, cmp_idx, failures, stepIdx,
                   insIdx, signals, shadow, mismatch, scenario>>

-----------------------------------------------------------------------------
(* The scripts, chips and compare files the driver is run on *)
(* n steps of m instructions each *)
Plans == {[i \in 1..n |-> m] : n \in 0..MaxSteps, m \in 0..MaxInstr}

EmptyLine == [kind |-> "empty", cells |-> <<>>]
Row(cells) == [kind |-> "row", cells |-> cells]

SeqsUpTo(S, n) == UNION {[1..k -> S] : k \in 0..n}

DriverInit(Chips, Vocab, Lists, Lines, ThePlans) ==
    /\ chip \in Chips
    /\ vocab = Vocab
    /\ output_list \in Lists
    /\ cmp_file \in {[header |-> <<"in", "out">>, lines |-> ls] :
                        ls \in SeqsUpTo(Lines, IF EmptyLine \in Lines
                                                THEN MaxLines + 1 ELSE MaxLines)}
    /\ plan \in ThePlans
    /\ status = "start"
    /\ expected = <<>>
    /\ inputs = EmptyBusMap
    /\ outputs = EmptyBusMap
    /\ cmp_idx = 0
    /\ failures = 0
    /\ stepIdx = 0
    /\ insIdx = 0
    /\ signals = InitialSignals(chip)
    /\ shadow \in {[i \in 1..chip.width |-> b] : b \in {0, 1, None}}
    /\ last = Instr("", "", NoValue)
    /\ calls = <<>>
    /\ mismatch = FALSE
    /\ scenario = 0
    /\ source = <<>>
    /\ chip_name = <<>>
    /\ provider_ok = FALSE
    /\ op = "idle"
    /\ result = [kind |-> "none"]
    /\ provider_calls = <<>>

DriverNext ==
    \/ ReadCmp
    \/ NextStep
    \/ Set
    \/ Eval
    \/ Output
    \/ Tick
    \/ Tock
    \/ Finish

(* The driver on the single DFF, its compare file listing `out` only *)
MainLines == {Row(<<(<<"*">>), c>>) : c \in {<<"0">>, <<"1">>, <<"*">>}}

MainVocab == [ports |-> {"in", "zz"}, lits |-> {Decimal(<<"0">>), Decimal(<<"1">>)}]

Init == DriverInit({DffChip}, MainVocab, {<<"Binary", "Binary">>}, MainLines, Plans)

Next == DriverNext

Spec == Init /\ [][Next]_vars

(* The driver on the single DFF with compare files that have empty lines *)
CmpLines == { EmptyLine, Row(<<(<<"*">>), <<"0">> >>), Row(<<(<<"*">>), <<"1">> >>) }

CmpVocab == [ports |-> {"in"}, lits |-> {Decimal(<<"0">>), Decimal(<<"1">>)}]

CmpPlans == {pl \in Plans : Len(pl) <= 2}

CmpInit ==
    /\ DriverInit({DffChip}, CmpVocab, {<<"Binary", "Binary">>}, CmpLines, CmpPlans)
    /\ shadow = <<0>>

CmpSpec == CmpInit /\ [][Next]_vars

(* The driver on the NAND chip, which has two input ports *)
NandChip == [kind |-> "NAND", width |-> 1]

NandVocab == [ports |-> {"a", "b"}, lits |-> {Decimal(<<"0">>), Decimal(<<"1">>)}]

NandInit ==
    DriverInit({NandChip}, NandVocab, {<<"Binary", "Binary">>}, MainLines, CmpPlans)

NandSpec == NandInit /\ [][Next]_vars

(* The driver on wider registers, with literals of every number system *)
SetWidths == {2, 17}

SetLiterals ==
    { Binary(<<"1">>), Binary(<<"1", "0">>), Binary(<<"1", "0", "1">>),
      Binary(<<"1", "2">>),
      Decimal(<<"5">>), Decimal(<<"-", "1">>), Decimal(<<"-", "3", "2", "7", "6", "8">>),
      Decimal(<<"3", "2", "7", "6", "8">>),
      InputValue("Hex", <<"F">>), InputValue("String", <<"a">>) }

SetVocab == [ports |-> {"in"}, lits |-> SetLiterals]

SetLists ==
    { <<"Binary", "Binary">>, <<"Decimal", "Decimal">>,
      <<"Binary", "Hex">>, <<"Binary", "String">> }

SetLines == { Row(<<(<<"*">>), <<"1", "0">> >>), Row(<<(<<"*">>), <<"*">> >>) }

SetPlans == {pl \in Plans : Len(pl) <= 1}

SetInit ==
    DriverInit({[kind |-> "REG", width |-> w] : w \in SetWidths},
               SetVocab, SetLists, SetLines, SetPlans)

SetSpec == SetInit /\ [][Next]_vars

-----------------------------------------------------------------------------
(* C1: Eval and Tick each make exactly one simulator call, a settle with   *)
(* the current inputs, and leave the DFF state alone; Tock makes a tick    *)
(* and then a settle, so its settle sees the latched state; no other       *)
(* operation changes the DFF state; the settle result becomes `outputs`.   *)
C1_OnlyTockAdvancesClock ==
    [][ /\ last'.kind \in {"Eval", "Tick"} =>
              /\ calls' = <<"simulate">>
              /\ shadow' = shadow
              /\ status' = "running" => outputs' = Settle(chip, inputs, shadow)
        /\ last'.kind = "Tock" =>
              /\ calls' \in {<<"tick">>, <<"tick", "simulate">>}
              /\ status' = "running" =>
                    /\ calls' = <<"tick", "simulate">>
                    /\ shadow' = Latch(chip, signals, shadow)
                    /\ outputs' = Settle(chip, inputs, shadow')
        /\ last'.kind # "Tock" => shadow' = shadow
      ]_vars

(* a Tock that latched a 1 settled earlier, the input being 0 by now *)
C1_Witness ==
    /\ last.kind = "Tock" /\ status = "running"
    /\ calls = <<"tick", "simulate">>
    /\ outputs = [n \in {"in", "out"} |-> IF n = "in" THEN <<0>> ELSE <<1>>]

(* C2: on the single DFF, set in=1, tick, tock leaves out=1; set in=0,     *)
(* tock (no tick before it) still out=1; tick, tock leaves out=0.          *)
C2_DffThroughTickTock ==
    (chip = DffChip /\ last.kind = "Tock" /\ status = "running") =>
        /\ scenario = 3 => outputs["out"] = <<1>>
        /\ scenario = 5 => outputs["out"] = <<1>>
        /\ scenario = 7 => outputs["out"] = <<0>>

C2_Witness ==
    chip = DffChip /\ last.kind = "Tock" /\ status = "running" /\ scenario = 7

(* C3: an Output records a failure exactly when some bit the expected row  *)
(* defines is absent from, undefined in, or different in `outputs`.        *)
DefinedBitDiffers(row, out) ==
    \E n \in DOMAIN row : \E i \in 1..Len(row[n]) :
        /\ row[n][i] \in {0, 1}
        /\ IF n \in DOMAIN out /\ i <= Len(out[n]) THEN out[n][i] # row[n][i] ELSE TRUE

C3_OutputFailsIffDefinedBitDiffers ==
    [][ (last'.kind = "Output" /\ status' = "running") =>
            /\ failures' = IF DefinedBitDiffers(expected[cmp_idx + 1], outputs)
                           THEN failures + 1 ELSE failures
      ]_vars

(* an Output that failed against outputs a settle had produced *)
C3_Witness ==
    /\ last.kind = "Output" /\ status = "running"
    /\ failures = 1 /\ cmp_idx = 1
    /\ "out" \in DOMAIN outputs

Stopped == status \in {"passed", "failed", "error", "panic"}

C5_MismatchContinuesFailureStops ==
    [][ /\ (last'.kind = "Output" /\ cmp_idx' = cmp_idx + 1) =>
              (status' = "running" /\ insIdx' = insIdx + 1 /\ stepIdx' = stepIdx)
        /\ status' \in {"passed", "failed"} =>
              (stepIdx' = Len(plan) /\ AtStepEnd' /\ last'.kind = "Finish")
        /\ last'.kind \in {"Eval", "Tick", "Tock"} =>
              \/ status' = "running" /\ insIdx' = insIdx + 1
              \/ Stopped' /\ insIdx' = insIdx /\ outputs' = outputs
        /\ ~Stopped
      ]_vars

(* an Eval ran after an Output had recorded a mismatch *)
C5_Witness == mismatch /\ status = "running" /\ last.kind = "Eval"

-----------------------------------------------------------------------------
(* C6: after a Set of a binary literal on a port of width w, inputs[port]  *)
(* has exactly w bits: counted from the right, bit k is the literal's bit  *)
(* k where the literal has one, and an extension bit where it has not.     *)
FromRight(bits, k) == bits[Len(bits) + 1 - k]

C6_BinaryLiteralFillsPort ==
    (last.kind = "Set" /\ last.value.number_system = "Binary" /\ status = "running") =>
        LET w == ports[last.port]
            lit == BinaryBits(last.value.value)
        IN  /\ Len(inputs[last.port]) = w
            /\ \A k \in 1..w :
                  IF k <= Len(lit)
                  THEN FromRight(inputs[last.port], k) = FromRight(lit, k)
                  ELSE FromRight(inputs[last.port], k) \in {0, 1}

(* C7: after a Set of a decimal literal v on a port of width w,            *)
(* inputs[port] is the w bits of v mod 2^w, most significant first.        *)
TwosComplement(v, w) == [i \in 1..w |-> ((v % 2^w) \div 2^(w - i)) % 2]

C7_DecimalLiteralIsTwosComplement ==
    (last.kind = "Set" /\ last.value.number_system = "Decimal" /\ status = "running") =>
        inputs[last.port] = TwosComplement(ParseI16(last.value.value).val, ports[last.port])

(* C8: a Set of a Hex or String literal, and reading a compare file with a *)
(* cell in a Hex column, end in an error that is returned, not in a panic. *)
HasHexCell(file, olist) ==
    \E k \in 1..Len(file.lines) : \E i \in 1..Len(file.lines[k].cells) :
        /\ i <= Len(olist) /\ olist[i] = "Hex"
        /\ ~IsWildcard(file.lines[k].cells[i])

C8_UnsupportedIsReturned ==
    /\ (last.kind = "Set" /\ last.value.number_system \in {"Hex", "String"}) =>
            status = "error"
    /\ (last.kind = "ReadCmp" /\ HasHexCell(cmp_file, output_list)) =>
            status = "error"

-----------------------------------------------------------------------------
(* Scanner: the tokens of the text, handed out one at a time; next() and   *)
(* peek() are None once they are used up.  A parser position is the index  *)
(* of the token next() would return.                                       *)
Tok(tt, lexeme) == [token_type |-> tt, lexeme |-> lexeme]
EofToken == Tok("Eof", "")
HasNext(toks, pos) == pos <= Len(toks)

(* Result<T, N2VError>, and the panic of an unwrap() on None *)
Ok(pos, val) == [kind |-> "ok", pos |-> pos, val |-> val]
Err(tok) == [kind |-> "err", tok |-> tok]
Panicked == [kind |-> "panic"]

(* Identifier, Terminal, GenericWidth, Option<GenericWidth>::None *)
IdentifierFromToken(t) == [value |-> t.lexeme, path |-> "some"]
IdentifierFromStr(str) == [value |-> str, path |-> "none"]
Num(n) == [t |-> "Num", num |-> n]
Var(id) == [t |-> "Var", var |-> id]
Terminal(x) == [tag |-> "Terminal", term |-> x]
Expr(o, l, r) == [tag |-> "Expr", op |-> o, left |-> l, right |-> r]
NoWidth == [tag |-> "None"]

(* lexeme.parse::<usize>() for the numbers of the token streams *)
NumberValue(lexeme) ==
    CASE lexeme = "0" -> 0 [] lexeme = "1" -> 1 [] lexeme = "2" -> 2
      [] lexeme = "3" -> 3 [] lexeme = "4" -> 4 [] lexeme = "16" -> 16

(* `The({e : x \in {v}})` is e with x standing for the value of v *)
The(S) == CHOOSE x \in S : TRUE

consume(toks, pos, tt) ==
    IF ~HasNext(toks, pos) THEN Err(EofToken)
    ELSE IF toks[pos].token_type = tt THEN Ok(pos + 1, toks[pos])
    ELSE Err(toks[pos])

terminal(toks, pos) ==
    IF ~HasNext(toks, pos) THEN Panicked
    ELSE LET width_token == toks[pos]
         IN  CASE width_token.token_type = "Number" ->
                    Ok(pos + 1, Num(NumberValue(width_token.lexeme)))
               [] width_token.token_type = "Identifier" ->
                    Ok(pos + 1, Var(IdentifierFromToken(width_token)))
               [] OTHER -> Err(width_token)

(* expr with the operands the other way round *)
expr_swapped(toks, pos) ==
    The({ IF t1.kind # "ok" THEN t1
          ELSE IF ~HasNext(toks, t1.pos) THEN Panicked
          ELSE IF toks[t1.pos].token_type \in {"Plus", "Minus"}
          THEN The({ IF t2.kind # "ok" THEN t2
                     ELSE Ok(t2.pos,
                             Expr(IF toks[t1.pos].token_type = "Plus"
                                  THEN "Add" ELSE "Sub",
                                  Terminal(t2.val), Terminal(t1.val)))
                     : t2 \in {terminal(toks, t1.pos + 1)} })
          ELSE Ok(t1.pos, Terminal(t1.val))
          : t1 \in {terminal(toks, pos)} })

expr(toks, pos) ==
    The({ IF t1.kind # "ok" THEN t1
          ELSE IF ~HasNext(toks, t1.pos) THEN Panicked
          ELSE IF toks[t1.pos].token_type \in {"Plus", "Minus"}
          THEN The({ IF t2.kind # "ok" THEN t2
                     ELSE Ok(t2.pos,
                             Expr(IF toks[t1.pos].token_type = "Plus"
                                  THEN "Add" ELSE "Sub",
                                  Terminal(t1.val), Terminal(t2.val)))
                     : t2 \in {terminal(toks, t1.pos + 1)} })
          ELSE Ok(t1.pos, Terminal(t1.val))
          : t1 \in {terminal(toks, pos)} })

port_width(toks, pos) ==
    IF ~HasNext(toks, pos) THEN Panicked
    ELSE IF toks[pos].token_type # "LeftBracket" THEN Ok(pos, Terminal(Num(1)))
    ELSE The({ IF width.kind # "ok" THEN width
               ELSE The({ IF rb.kind # "ok" THEN rb ELSE Ok(rb.pos, width.val)
                          : rb \in {consume(toks, width.pos, "RightBracket")} })
               : width \in {expr(toks, pos + 1)} })

(* lines 675-688: the index after its first expression *)
(* bus_idx whose single index `[e]` leaves the end of the reference open *)
bus_idx_end_open(toks, start) ==
    IF ~HasNext(toks, start.pos) THEN Panicked
    ELSE IF toks[start.pos].token_type = "Dot"
    THEN The({ IF dot2.kind # "ok" THEN dot2
               ELSE The({ IF end.kind # "ok" THEN end
                          ELSE The({ IF rb.kind # "ok" THEN rb
                                     ELSE Ok(rb.pos, [start |-> start.val,
                                                      end |-> end.val])
                                     : rb \in {consume(toks, end.pos, "RightBracket")} })
                          : end \in {expr(toks, dot2.pos)} })
               : dot2 \in {consume(toks, start.pos + 1, "Dot")} })
    ELSE The({ IF rb.kind # "ok" THEN rb
               ELSE Ok(rb.pos, [start |-> start.val, end |-> NoWidth])
               : rb \in {consume(toks, start.pos, "RightBracket")} })

bus_idx_end(toks, start) ==
    IF ~HasNext(toks, start.pos) THEN Panicked
    ELSE IF toks[start.pos].token_type = "Dot"
    THEN The({ IF dot2.kind # "ok" THEN dot2
               ELSE The({ IF end.kind # "ok" THEN end
                          ELSE The({ IF rb.kind # "ok" THEN rb
                                     ELSE Ok(rb.pos, [start |-> start.val,
                                                      end |-> end.val])
                                     : rb \in {consume(toks, end.pos, "RightBracket")} })
                          : end \in {expr(toks, dot2.pos)} })
               : dot2 \in {consume(toks, start.pos + 1, "Dot")} })
    ELSE The({ IF rb.kind # "ok" THEN rb
               ELSE Ok(rb.pos, [start |-> start.val, end |-> start.val])
               : rb \in {consume(toks, start.pos, "RightBracket")} })

bus_idx(toks, pos) ==
    IF ~HasNext(toks, pos) THEN Panicked
    ELSE IF toks[pos].token_type # "LeftBracket"
    THEN Ok(pos, [start |-> NoWidth, end |-> NoWidth])
    ELSE The({ IF start.kind # "ok" THEN start ELSE bus_idx_end(toks, start)
               : start \in {expr(toks, pos + 1)} })

RECURSIVE generic_decls_loop(_, _, _)
generic_decls_loop(toks, pos, res) ==
    IF ~HasNext(toks, pos) THEN Err(EofToken)
    ELSE LET t == toks[pos]
         IN  CASE t.token_type = "Identifier" ->
                    generic_decls_loop(toks, pos + 1,
                                       Append(res, IdentifierFromToken(t)))
               [] t.token_type = "Comma" -> generic_decls_loop(toks, pos + 1, res)
               [] t.token_type = "RightAngle" -> Ok(pos + 1, res)
               [] OTHER -> Err(t)

generic_decls(toks, pos) ==
    IF ~HasNext(toks, pos) THEN Panicked
    ELSE IF toks[pos].token_type # "LeftAngle" THEN Ok(pos, <<>>)
    ELSE generic_decls_loop(toks, pos + 1, <<>>)

RECURSIVE generics_loop(_, _, _)
generics_loop(toks, pos, res) ==
    IF ~HasNext(toks, pos) THEN Err(EofToken)
    ELSE LET t == toks[pos]
         IN  CASE t.token_type = "Number" ->
                    generics_loop(toks, pos + 1,
                                  Append(res, Terminal(Num(NumberValue(t.lexeme)))))
               [] t.token_type = "Identifier" ->
                    generics_loop(toks, pos + 1,
                                  Append(res, Terminal(Var(IdentifierFromToken(t)))))
               [] t.token_type = "Comma" -> generics_loop(toks, pos + 1, res)
               [] t.token_type = "RightAngle" -> Ok(pos + 1, res)
               [] OTHER -> Err(t)

generics(toks, pos) ==
    IF ~HasNext(toks, pos) THEN Panicked
    ELSE IF toks[pos].token_type # "LeftAngle" THEN Ok(pos, <<>>)
    ELSE generics_loop(toks, pos + 1, <<>>)

RECURSIVE port_names_loop(_, _, _, _)
port_names_loop(toks, pos, direction, res) ==
    IF ~HasNext(toks, pos) THEN Err(EofToken)
    ELSE LET t == toks[pos]
         IN  CASE t.token_type = "Identifier" ->
                    The({ IF width.kind # "ok" THEN width
                          ELSE port_names_loop(toks, width.pos, direction,
                                   Append(res, [name |-> IdentifierFromToken(t),
                                                width |-> width.val,
                                                direction |-> direction]))
                          : width \in {port_width(toks, pos + 1)} })
               [] t.token_type = "Comma" -> port_names_loop(toks, pos + 1, direction, res)
               [] t.token_type = "Semicolon" -> Ok(pos + 1, res)
               [] OTHER -> Err(t)

(* port_names that tags every port as an input *)
port_names_all_in(toks, pos, direction) == port_names_loop(toks, pos, "In", <<>>)

port_names(toks, pos, direction) == port_names_loop(toks, pos, direction, <<>>)

(* PortMapping with the two sides exchanged *)
PortMappingSwapped(t, port_idx, wire, wire_idx) ==
    [wire_ident |-> IdentifierFromToken(t),
     wire |-> [name |-> t.lexeme, start |-> port_idx.start, end |-> port_idx.end],
     port |-> [name |-> wire.lexeme, start |-> wire_idx.start, end |-> wire_idx.end]]

(* lines 712-724 *)
PortMapping(t, port_idx, wire, wire_idx) ==
    [wire_ident |-> IdentifierFromToken(t),
     wire |-> [name |-> wire.lexeme, start |-> wire_idx.start, end |-> wire_idx.end],
     port |-> [name |-> t.lexeme, start |-> port_idx.start, end |-> port_idx.end]]

(* lines 707-710: one mapping, written after its port name t *)
port_mapping(toks, pos, t) ==
    The({ IF port_idx.kind # "ok" THEN port_idx
          ELSE The({ IF eq.kind # "ok" THEN eq
                     ELSE The({ IF wire.kind # "ok" THEN wire
                                ELSE The({ IF wire_idx.kind # "ok" THEN wire_idx
                                           ELSE Ok(wire_idx.pos,
                                                   PortMapping(t, port_idx.val, wire.val,
                                                               wire_idx.val))
                                           : wire_idx \in {bus_idx(toks, wire.pos)} })
                                : wire \in {consume(toks, eq.pos, "Identifier")} })
                     : eq \in {consume(toks, port_idx.pos, "Equal")} })
          : port_idx \in {bus_idx(toks, pos)} })

RECURSIVE port_mappings_loop(_, _, _)
port_mappings_loop(toks, pos, mappings) ==
    IF ~HasNext(toks, pos) THEN Err(EofToken)
    ELSE
      LET t == toks[pos]
      IN  CASE t.token_type = "Identifier" ->
                 The({ IF mapping.kind # "ok" THEN mapping
                       ELSE IF ~HasNext(toks, mapping.pos) THEN Panicked
                       ELSE IF toks[mapping.pos].token_type \in {"Comma", "RightParen"}
                       THEN port_mappings_loop(toks, mapping.pos,
                                               Append(mappings, mapping.val))
                       ELSE Err(toks[mapping.pos])
                       : mapping \in {port_mapping(toks, pos + 1, t)} })
            [] t.token_type = "Comma" -> port_mappings_loop(toks, pos + 1, mappings)
            [] t.token_type = "RightParen" -> Ok(pos + 1, mappings)
            [] OTHER -> Err(t)

port_mappings(toks, pos) ==
    The({ IF lp.kind # "ok" THEN lp
          ELSE The({ IF mappings.kind # "ok" THEN mappings
                     ELSE The({ IF semi.kind # "ok" THEN semi
                                ELSE Ok(semi.pos, mappings.val)
                                : semi \in {consume(toks, mappings.pos, "Semicolon")} })
                     : mappings \in {port_mappings_loop(toks, lp.pos, <<>>)} })
          : lp \in {consume(toks, pos, "LeftParen")} })

(* called with an Identifier peeked, so its next().unwrap() has a token *)
component(toks, pos) ==
    The({ IF generic_params.kind # "ok" THEN generic_params
          ELSE The({ IF mappings.kind # "ok" THEN mappings
                     ELSE Ok(mappings.pos,
                             [part |-> "Component",
                              name |-> IdentifierFromToken(toks[pos]),
                              mappings |-> mappings.val,
                              generic_params |-> generic_params.val])
                     : mappings \in {port_mappings(toks, generic_params.pos)} })
          : generic_params \in {generics(toks, pos + 1)} })

RECURSIVE components_loop(_, _, _)
components_loop(toks, pos, body) ==
    IF ~HasNext(toks, pos) THEN Err(EofToken)
    ELSE LET t == toks[pos]
         IN  CASE t.token_type = "Identifier" ->
                    The({ IF c.kind # "ok" THEN c
                          ELSE components_loop(toks, c.pos, Append(body, c.val))
                          : c \in {component(toks, pos)} })
               [] t.token_type = "RightCurly" -> Ok(pos + 1, body)
               [] OTHER -> Err(t)

RECURSIVE parts_loop(_, _, _)

(* components that lets a loop body hold loops, as parts does *)
components_nesting(toks, pos) == parts_loop(toks, pos, <<>>)

components(toks, pos) == components_loop(toks, pos, <<>>)

(* lines 585-587: FOR iterator IN *)
for_loop_head(toks, pos) ==
    The({ IF for.kind # "ok" THEN for
          ELSE The({ IF iterator.kind # "ok" THEN iterator
                     ELSE The({ IF in.kind # "ok" THEN in
                                ELSE Ok(in.pos, IdentifierFromToken(iterator.val))
                                : in \in {consume(toks, iterator.pos, "In")} })
                     : iterator \in {consume(toks, for.pos, "Identifier")} })
          : for \in {consume(toks, pos, "For")} })

(* lines 588-590: start TO end *)
for_loop_range(toks, pos) ==
    The({ IF start.kind # "ok" THEN start
          ELSE The({ IF to.kind # "ok" THEN to
                     ELSE The({ IF end.kind # "ok" THEN end
                                ELSE Ok(end.pos, [start |-> start.val, end |-> end.val])
                                : end \in {expr(toks, to.pos)} })
                     : to \in {consume(toks, start.pos, "To")} })
          : start \in {expr(toks, pos)} })

(* lines 591-593: GENERATE { components *)
for_loop_body(toks, pos) ==
    The({ IF generate.kind # "ok" THEN generate
          ELSE The({ IF lc.kind # "ok" THEN lc ELSE components(toks, lc.pos)
                     : lc \in {consume(toks, generate.pos, "LeftCurly")} })
          : generate \in {consume(toks, pos, "Generate")} })

for_loop(toks, pos) ==
    The({ IF iterator.kind # "ok" THEN iterator
          ELSE The({ IF range.kind # "ok" THEN range
                     ELSE The({ IF body.kind # "ok" THEN body
                                ELSE Ok(body.pos, [part |-> "Loop",
                                                   start |-> range.val.start,
                                                   end |-> range.val.end,
                                                   iterator |-> iterator.val,
                                                   body |-> body.val])
                                : body \in {for_loop_body(toks, range.pos)} })
                     : range \in {for_loop_range(toks, iterator.pos)} })
          : iterator \in {for_loop_head(toks, pos)} })

parts_loop(toks, pos, theParts) ==
    IF ~HasNext(toks, pos) THEN Err(EofToken)
    ELSE LET t == toks[pos]
         IN  CASE t.token_type = "Identifier" ->
                    The({ IF c.kind # "ok" THEN c
                          ELSE parts_loop(toks, c.pos, Append(theParts, c.val))
                          : c \in {component(toks, pos)} })
               [] t.token_type = "For" ->
                    The({ IF l.kind # "ok" THEN l
                          ELSE parts_loop(toks, l.pos, Append(theParts, l.val))
                          : l \in {for_loop(toks, pos)} })
               [] t.token_type = "RightCurly" -> Ok(pos + 1, theParts)
               [] OTHER -> Err(t)

parts(toks, pos) == parts_loop(toks, pos, <<>>)

(* lines 267-270: CHIP name and the generic declarations *)
chip_header(toks) ==
    The({ IF kw.kind # "ok" THEN kw
          ELSE The({ IF chip_name_tok.kind # "ok" THEN chip_name_tok
                     ELSE The({ IF decls.kind # "ok" THEN decls
                                ELSE Ok(decls.pos, [chip_name |-> chip_name_tok.val,
                                                    generics |-> decls.val])
                                : decls \in {generic_decls(toks, chip_name_tok.pos)} })
                     : chip_name_tok \in {consume(toks, kw.pos, "Identifier")} })
          : kw \in {consume(toks, 1, "Chip")} })

(* lines 272-279: { IN ports OUT ports *)
chip_ports(toks, pos) ==
    The({ IF lc.kind # "ok" THEN lc
          ELSE The({ IF in.kind # "ok" THEN in
                     ELSE The({ IF in_ports.kind # "ok" THEN in_ports
                                ELSE The({ IF out.kind # "ok" THEN out
                                           ELSE The({ IF out_ports.kind # "ok" THEN out_ports
                                                      ELSE Ok(out_ports.pos,
                                                              in_ports.val \o out_ports.val)
                                                      : out_ports \in
                                                          {port_names(toks, out.pos, "Out")} })
                                           : out \in {consume(toks, in_ports.pos, "Out")} })
                                : in_ports \in {port_names(toks, in.pos, "In")} })
                     : in \in {consume(toks, lc.pos, "In")} })
          : lc \in {consume(toks, pos, "LeftCurly")} })

(* lines 281-284: PARTS: parts *)
chip_parts(toks, pos) ==
    The({ IF kw.kind # "ok" THEN kw
          ELSE The({ IF colon.kind # "ok" THEN colon ELSE parts(toks, colon.pos)
                     : colon \in {consume(toks, kw.pos, "Colon")} })
          : kw \in {consume(toks, pos, "Parts")} })

ParseChip(toks) ==
    The({ IF header.kind # "ok" THEN header
          ELSE The({ IF the_ports.kind # "ok" THEN the_ports
                     ELSE The({ IF the_parts.kind # "ok" THEN the_parts
                                ELSE Ok(the_parts.pos,
                                        [name |-> IdentifierFromToken(
                                                      header.val.chip_name).value,
                                         ports |-> the_ports.val,
                                         parts |-> the_parts.val,
                                         path |-> "some",
                                         generic_decls |-> header.val.generics])
                                : the_parts \in {chip_parts(toks, the_ports.pos)} })
                     : the_ports \in {chip_ports(toks, header.pos)} })
          : header \in {chip_header(toks)} })

parse(toks) ==
    The({ IF r.kind = "ok" THEN [kind |-> "ok", val |-> r.val] ELSE r
          : r \in {ParseChip(toks)} })

(* str::to_lowercase on the letters the chip names are written with *)
ToLowerChar(c) ==
    CASE c = "N" -> "n" [] c = "A" -> "a" [] c = "D" -> "d" [] c = "F" -> "f"
      [] c = "O" -> "o" [] c = "T" -> "t" [] c = "X" -> "x"
      [] OTHER -> c

to_lowercase(str) == [i \in 1..Len(str) |-> ToLowerChar(str[i])]

BuiltinPort(str, direction) ==
    [name |-> IdentifierFromStr(str), width |-> Terminal(Num(1)), direction |-> direction]

NandHdl ==
    [name |-> "NAND",
     ports |-> << BuiltinPort("a", "In"), BuiltinPort("b", "In"), BuiltinPort("out", "Out") >>,
     parts |-> <<>>,
     path |-> "none",
     generic_decls |-> <<>>]

DffHdl ==
    [name |-> "DFF",
     ports |-> << BuiltinPort("in", "In"), BuiltinPort("out", "Out") >>,
     parts |-> <<>>,
     path |-> "none",
     generic_decls |-> <<>>]

(* HdlProvider::get_hdl: the text of the file, scanned to `toks`, or an   *)
(* io::Error                                                              *)
ProviderGetHdl(ok, toks) ==
    IF ok THEN [kind |-> "ok", val |-> toks] ELSE [kind |-> "io_err"]

(* get_hdl compared without to_lowercase *)
get_hdl_exact(nm, ok, toks) ==
    IF nm = <<"n", "a", "n", "d">>
    THEN [res |-> [kind |-> "ok", val |-> NandHdl], asked |-> <<>>]
    ELSE IF nm = <<"d", "f", "f">>
    THEN [res |-> [kind |-> "ok", val |-> DffHdl], asked |-> <<>>]
    ELSE LET filename == nm \o <<".", "h", "d", "l">>
             contents == ProviderGetHdl(ok, toks)
         IN  [res |-> IF contents.kind # "ok" THEN contents ELSE parse(contents.val),
              asked |-> <<filename>>]

(* get_hdl asking for the file under the lower-case name *)
get_hdl_lowerfile(nm, ok, toks) ==
    IF to_lowercase(nm) = <<"n", "a", "n", "d">>
    THEN [res |-> [kind |-> "ok", val |-> NandHdl], asked |-> <<>>]
    ELSE IF to_lowercase(nm) = <<"d", "f", "f">>
    THEN [res |-> [kind |-> "ok", val |-> DffHdl], asked |-> <<>>]
    ELSE LET filename == to_lowercase(nm) \o <<".", "h", "d", "l">>
             contents == ProviderGetHdl(ok, toks)
         IN  [res |-> IF contents.kind # "ok" THEN contents ELSE parse(contents.val),
              asked |-> <<filename>>]

(* the result, and the file names the provider was asked for *)
get_hdl(nm, ok, toks) ==
    IF to_lowercase(nm) = <<"n", "a", "n", "d">>
    THEN [res |-> [kind |-> "ok", val |-> NandHdl], asked |-> <<>>]
    ELSE IF to_lowercase(nm) = <<"d", "f", "f">>
    THEN [res |-> [kind |-> "ok", val |-> DffHdl], asked |-> <<>>]
    ELSE LET filename == nm \o <<".", "h", "d", "l">>
             contents == ProviderGetHdl(ok, toks)
         IN  [res |-> IF contents.kind # "ok" THEN contents ELSE parse(contents.val),
              asked |-> <<filename>>]

Parse ==
    /\ op = ""
    /\ op' = "parse"
    /\ result' = parse(source)
    /\ UNCHANGED <<driver_vars, source, chip_name, provider_ok, provider_calls>>

GetHdl ==
    /\ op = ""
    /\ op' = "get_hdl"
    /\ LET r == get_hdl(chip_name, provider_ok, source)
       IN  /\ result' = r.res
           /\ provider_calls' = r.asked
    /\ UNCHANGED <<driver_vars, source, chip_name, provider_ok>>

-----------------------------------------------------------------------------
(* The token streams the parser is run on *)
Kw(tt) == Tok(tt, tt)
Id(lexeme) == Tok("Identifier", lexeme)
Number(lexeme) == Tok("Number", lexeme)

(* CHIP Not { IN in; OUT out; PARTS: Nand(a=in, b=in, out=out); } *)
NotChip ==
    << Kw("Chip"), Id("Not"), Kw("LeftCurly"),
       Kw("In"), Id("in"), Kw("Semicolon"),
       Kw("Out"), Id("out"), Kw("Semicolon"),
       Kw("Parts"), Kw("Colon"),
       Id("Nand"), Kw("LeftParen"),
       Id("a"), Kw("Equal"), Id("in"), Kw("Comma"),
       Id("b"), Kw("Equal"), Id("in"), Kw("Comma"),
       Id("out"), Kw("Equal"), Id("out"), Kw("RightParen"), Kw("Semicolon"),
       Kw("RightCurly") >>

(* CHIP Foo<W> { IN a[W], b[W+1]; OUT out[16];                            *)
(*   PARTS: FOR i IN 0 TO W-1 GENERATE { Nand(a=a[i], b=b[i..i], out=out[i]); } *)
(*          Bar<W, 4>(x[0..3]=a, y=out); }                                 *)
FooChip ==
    << Kw("Chip"), Id("Foo"), Kw("LeftAngle"), Id("W"), Kw("RightAngle"),
       Kw("LeftCurly"),
       Kw("In"), Id("a"), Kw("LeftBracket"), Id("W"), Kw("RightBracket"), Kw("Comma"),
       Id("b"), Kw("LeftBracket"), Id("W"), Kw("Plus"), Number("1"),
       Kw("RightBracket"), Kw("Semicolon"),
       Kw("Out"), Id("out"), Kw("LeftBracket"), Number("16"), Kw("RightBracket"),
       Kw("Semicolon"),
       Kw("Parts"), Kw("Colon"),
       Kw("For"), Id("i"), Kw("In"), Number("0"), Kw("To"), Id("W"), Kw("Minus"),
       Number("1"), Kw("Generate"), Kw("LeftCurly"),
       Id("Nand"), Kw("LeftParen"),
       Id("a"), Kw("Equal"), Id("a"), Kw("LeftBracket"), Id("i"), Kw("RightBracket"),
       Kw("Comma"),
       Id("b"), Kw("Equal"), Id("b"), Kw("LeftBracket"), Id("i"), Kw("Dot"), Kw("Dot"),
       Id("i"), Kw("RightBracket"), Kw("Comma"),
       Id("out"), Kw("Equal"), Id("out"), Kw("LeftBracket"), Id("i"),
       Kw("RightBracket"), Kw("RightParen"), Kw("Semicolon"),
       Kw("RightCurly"),
       Id("Bar"), Kw("LeftAngle"), Id("W"), Kw("Comma"), Number("4"), Kw("RightAngle"),
       Kw("LeftParen"),
       Id("x"), Kw("LeftBracket"), Number("0"), Kw("Dot"), Kw("Dot"), Number("3"),
       Kw("RightBracket"), Kw("Equal"), Id("a"), Kw("Comma"),
       Id("y"), Kw("Equal"), Id("out"), Kw("RightParen"), Kw("Semicolon"),
       Kw("RightCurly") >>

WellFormed == {NotChip, FooChip}

(* a well-formed stream cut short after its first n tokens *)
Cut(toks, n) == SubSeq(toks, 1, n)
Cuts == UNION {{Cut(toks, n) : n \in 0..(Len(toks) - 1)} : toks \in WellFormed}

(* a well-formed stream with a second CHIP keyword in place of one of the *)
(* tokens after the first                                                *)
Stray == Tok("Chip", "stray")
Replaced(toks, n) == [i \in 1..Len(toks) |-> IF i = n THEN Stray ELSE toks[i]]
Strays == UNION {{Replaced(toks, n) : n \in 2..Len(toks)} : toks \in WellFormed}

Sources == WellFormed \cup Cuts \cup Strays

ChipNames ==
    { <<"n", "a", "n", "d">>, <<"N", "A", "N", "D">>, <<"n", "A", "n", "D">>,
      <<"d", "f", "f">>, <<"D", "F", "F">>, <<"D", "f", "f">>,
      <<"N", "o", "t">>, <<"n", "a", "n">>, <<"n", "a", "n", "d", "x">>,
      <<"F", "o", "o">> }

DriverIdle ==
    /\ chip = DffChip
    /\ vocab = MainVocab
    /\ output_list = <<>>
    /\ cmp_file = [header |-> <<>>, lines |-> <<>>]
    /\ plan = <<>>
    /\ status = "idle"
    /\ expected = <<>>
    /\ inputs = EmptyBusMap
    /\ outputs = EmptyBusMap
    /\ cmp_idx = 0
    /\ failures = 0
    /\ stepIdx = 0
    /\ insIdx = 0
    /\ signals = InitialSignals(DffChip)
    /\ shadow = Nones(1)
    /\ last = Instr("", "", NoValue)
    /\ calls = <<>>
    /\ mismatch = FALSE
    /\ scenario = 0

ParseInit ==
    /\ DriverIdle
    /\ source \in Sources
    /\ chip_name \in ChipNames
    /\ provider_ok \in BOOLEAN
    /\ op = ""
    /\ result = [kind |-> "none"]
    /\ provider_calls = <<>>

ParseNext ==
    \/ Parse
    \/ GetHdl

ParseSpec == ParseInit /\ [][ParseNext]_vars

-----------------------------------------------------------------------------
(* Chips written from a description: the header's generic declarations,  *)
(* and the IN and OUT lists as the port declarations and commas written  *)
(* between `IN`/`OUT` and `;`.  A declaration carries the tokens of its  *)
(* width and the width expression they denote.                           *)
MaxPortItems == 3

CommaItem == [item |-> "comma"]
Decl(nm, toks, width) == [item |-> "decl", name |-> nm, toks |-> toks, width |-> width]

IdW == [value |-> "W", path |-> "some"]

PortItems ==
    { CommaItem,
      Decl("a", <<>>, [tag |-> "Terminal", term |-> [t |-> "Num", num |-> 1]]),
      Decl("b", <<Kw("LeftBracket"), Id("W"), Kw("Plus"), Number("1"), Kw("RightBracket")>>,
           [tag |-> "Expr", op |-> "Add",
            left |-> [tag |-> "Terminal", term |-> [t |-> "Var", var |-> IdW]],
            right |-> [tag |-> "Terminal", term |-> [t |-> "Num", num |-> 1]]]) }

OutX == Decl("x", <<>>, [tag |-> "Terminal", term |-> [t |-> "Num", num |-> 1]])
OutY ==
    Decl("y", <<Kw("LeftBracket"), Number("16"), Kw("RightBracket")>>,
         [tag |-> "Terminal", term |-> [t |-> "Num", num |-> 16]])

OutLists == { <<OutX>>, <<OutX, CommaItem, OutY>>, <<>>, <<CommaItem, OutX>> }

Headers == { <<>>, <<"W">>, <<"W", "N">> }

RECURSIVE RenderHeaderNames(_)
RenderHeaderNames(names) ==
    IF Len(names) = 0 THEN <<>>
    ELSE IF Len(names) = 1 THEN <<Id(names[1])>>
    ELSE <<Id(names[1]), Kw("Comma")>> \o RenderHeaderNames(Tail(names))

RenderHeader(names) ==
    IF names = <<>> THEN <<>>
    ELSE <<Kw("LeftAngle")>> \o RenderHeaderNames(names) \o <<Kw("RightAngle")>>

RECURSIVE RenderList(_)
RenderList(items) ==
    IF items = <<>> THEN <<>>
    ELSE (IF Head(items).item = "comma" THEN <<Kw("Comma")>>
          ELSE <<Id(Head(items).name)>> \o Head(items).toks)
         \o RenderList(Tail(items))

RenderChip(d) ==
    <<Kw("Chip"), Id("Foo")>> \o RenderHeader(d.header) \o <<Kw("LeftCurly"), Kw("In")>>
    \o RenderList(d.ins) \o <<Kw("Semicolon"), Kw("Out")>>
    \o RenderList(d.outs) \o <<Kw("Semicolon"), Kw("Parts"), Kw("Colon"), Kw("RightCurly")>>

PortChips ==
    { [header |-> h, ins |-> i, outs |-> o] :
        h \in Headers, i \in SeqsUpTo(PortItems, MaxPortItems), o \in OutLists }

PortSources == { RenderChip(d) : d \in PortChips }

(* the description a source was written from *)
Written == [s \in PortSources |-> CHOOSE d \in PortChips : RenderChip(d) = s]

PortsInit ==
    /\ DriverIdle
    /\ source \in PortSources
    /\ chip_name = <<"F", "o", "o">>
    /\ provider_ok \in BOOLEAN
    /\ op = ""
    /\ result = [kind |-> "none"]
    /\ provider_calls = <<>>

PortsSpec == PortsInit /\ [][ParseNext]_vars

-----------------------------------------------------------------------------

(* Chips with one expression written at one of the places an expression  *)
(* can stand: a port width, the two bounds of a loop, a single index, and *)
(* the two ends of a range.  The expression is a terminal followed by up  *)
(* to MaxOperators operator-terminal pairs.                               *)
MaxOperators == 2

ExprTerminals == { Id("a"), Id("b"), Number("2") }
ExprOperators == { Kw("Plus"), Kw("Minus") }

RECURSIVE ExprTextsOf(_)
ExprTextsOf(n) ==
    IF n = 0 THEN { <<t>> : t \in ExprTerminals }
    ELSE { e \o <<o, t>> : e \in ExprTextsOf(n - 1), o \in ExprOperators, t \in ExprTerminals }

ExprTexts == UNION { ExprTextsOf(n) : n \in 0..MaxOperators }

ExprPlaces == { "width", "start", "end", "index", "from", "to" }

Zero == <<Number("0")>>
At(d, place) == IF d.place = place THEN d.e ELSE Zero

(* CHIP Foo { IN a[width]; OUT out; PARTS:                               *)
(*   FOR i IN start TO end GENERATE { Nand(a[index]=b[from..to]); } }    *)
RenderExprChip(d) ==
    <<Kw("Chip"), Id("Foo"), Kw("LeftCurly"), Kw("In"), Id("a"), Kw("LeftBracket")>>
    \o At(d, "width")
    \o <<Kw("RightBracket"), Kw("Semicolon"), Kw("Out"), Id("out"), Kw("Semicolon"),
         Kw("Parts"), Kw("Colon"), Kw("For"), Id("i"), Kw("In")>>
    \o At(d, "start") \o <<Kw("To")>> \o At(d, "end")
    \o <<Kw("Generate"), Kw("LeftCurly"), Id("Nand"), Kw("LeftParen"), Id("a"),
         Kw("LeftBracket")>>
    \o At(d, "index")
    \o <<Kw("RightBracket"), Kw("Equal"), Id("b"), Kw("LeftBracket")>>
    \o At(d, "from") \o <<Kw("Dot"), Kw("Dot")>> \o At(d, "to")
    \o <<Kw("RightBracket"), Kw("RightParen"), Kw("Semicolon"), Kw("RightCurly"),
         Kw("RightCurly")>>

ExprChips == { [place |-> p, e |-> e] : p \in ExprPlaces, e \in ExprTexts }

ExprSources == { RenderExprChip(d) : d \in ExprChips }

ExprWritten == [s \in ExprSources |-> CHOOSE d \in ExprChips : RenderExprChip(d) = s]

ExprInit ==
    /\ DriverIdle
    /\ source \in ExprSources
    /\ chip_name = <<"F", "o", "o">>
    /\ provider_ok \in BOOLEAN
    /\ op = ""
    /\ result = [kind |-> "none"]
    /\ provider_calls = <<>>

ExprSpec == ExprInit /\ [][ParseNext]_vars

-----------------------------------------------------------------------------

(* Chips whose PARTS section is written from a description: components   *)
(* and loops, a loop body written as components and loops again.          *)
MaxParts == 2

Comp == [part |-> "Component"]
LoopOf(body) == [part |-> "Loop", body |-> body]

LoopBodies == SeqsUpTo({Comp, LoopOf(<<>>)}, 2)
PartItems == {Comp} \cup {LoopOf(b) : b \in LoopBodies}
PartLists == SeqsUpTo(PartItems, MaxParts)

(* Nand(a=b); *)
CompTokens ==
    <<Id("Nand"), Kw("LeftParen"), Id("a"), Kw("Equal"), Id("b"), Kw("RightParen"),
      Kw("Semicolon")>>

(* FOR i IN 0 TO 1 GENERATE { *)
LoopTokens ==
    <<Kw("For"), Id("i"), Kw("In"), Number("0"), Kw("To"), Number("1"), Kw("Generate"),
      Kw("LeftCurly")>>

RECURSIVE RenderParts(_)
RenderParts(items) ==
    IF items = <<>> THEN <<>>
    ELSE (IF Head(items).part = "Component" THEN CompTokens
          ELSE LoopTokens \o RenderParts(Head(items).body) \o <<Kw("RightCurly")>>)
         \o RenderParts(Tail(items))

RenderPartsChip(items) ==
    <<Kw("Chip"), Id("Foo"), Kw("LeftCurly"), Kw("In"), Id("a"), Kw("Semicolon"),
      Kw("Out"), Id("out"), Kw("Semicolon"), Kw("Parts"), Kw("Colon")>>
    \o RenderParts(items) \o <<Kw("RightCurly")>>

PartsSources == { RenderPartsChip(d) : d \in PartLists }

PartsWritten == [s \in PartsSources |-> CHOOSE d \in PartLists : RenderPartsChip(d) = s]

PartsInit ==
    /\ DriverIdle
    /\ source \in PartsSources
    /\ chip_name = <<"F", "o", "o">>
    /\ provider_ok \in BOOLEAN
    /\ op = ""
    /\ result = [kind |-> "none"]
    /\ provider_calls = <<>>

PartsSpec == PartsInit /\ [][ParseNext]_vars

-----------------------------------------------------------------------------

(* Chips with one component whose port mappings are written from a       *)
(* description: each mapping a port name and a wire name, each with no    *)
(* index, the index [2] or the range [0..3].                              *)
MaxMappings == 2

NoIdx == [toks |-> <<>>, start |-> [tag |-> "None"], end |-> [tag |-> "None"]]
OneIdx ==
    [toks |-> <<Kw("LeftBracket"), Number("2"), Kw("RightBracket")>>,
     start |-> [tag |-> "Terminal", term |-> [t |-> "Num", num |-> 2]],
     end |-> [tag |-> "Terminal", term |-> [t |-> "Num", num |-> 2]]]
RangeIdx ==
    [toks |-> <<Kw("LeftBracket"), Number("0"), Kw("Dot"), Kw("Dot"), Number("3"),
                Kw("RightBracket")>>,
     start |-> [tag |-> "Terminal", term |-> [t |-> "Num", num |-> 0]],
     end |-> [tag |-> "Terminal", term |-> [t |-> "Num", num |-> 3]]]

Mapped(p, pidx, w, widx) == [p |-> p, pidx |-> pidx, w |-> w, widx |-> widx]

WrittenMappings ==
    { Mapped("x", NoIdx, "a", NoIdx), Mapped("x", OneIdx, "a", NoIdx),
      Mapped("x", NoIdx, "a", RangeIdx), Mapped("x", RangeIdx, "a", OneIdx),
      Mapped("y", NoIdx, "b", NoIdx), Mapped("y", OneIdx, "b", OneIdx) }

MappingLists == SeqsUpTo(WrittenMappings, MaxMappings)

RenderMapping(m) == <<Id(m.p)>> \o m.pidx.toks \o <<Kw("Equal"), Id(m.w)>> \o m.widx.toks

RECURSIVE RenderMappings(_)
RenderMappings(ms) ==
    IF ms = <<>> THEN <<>>
    ELSE IF Len(ms) = 1 THEN RenderMapping(ms[1])
    ELSE RenderMapping(ms[1]) \o <<Kw("Comma")>> \o RenderMappings(Tail(ms))

(* CHIP Foo { IN a; OUT out; PARTS: Bar(mappings); } *)
RenderMappingsChip(ms) ==
    <<Kw("Chip"), Id("Foo"), Kw("LeftCurly"), Kw("In"), Id("a"), Kw("Semicolon"),
      Kw("Out"), Id("out"), Kw("Semicolon"), Kw("Parts"), Kw("Colon"),
      Id("Bar"), Kw("LeftParen")>>
    \o RenderMappings(ms) \o <<Kw("RightParen"), Kw("Semicolon"), Kw("RightCurly")>>

MappingSources == { RenderMappingsChip(ms) : ms \in MappingLists }

MappingsWritten ==
    [s \in MappingSources |-> CHOOSE ms \in MappingLists : RenderMappingsChip(ms) = s]

MappingsInit ==
    /\ DriverIdle
    /\ source \in MappingSources
    /\ chip_name = <<"F", "o", "o">>
    /\ provider_ok \in BOOLEAN
    /\ op = ""
    /\ result = [kind |-> "none"]
    /\ provider_calls = <<>>

MappingsSpec == MappingsInit /\ [][ParseNext]_vars

-----------------------------------------------------------------------------

(* C9: parse of a token stream that is not a well-formed chip returns a    *)
(* ParseError and never aborts: a well-formed stream cut short at any      *)
(* point gives the error with the synthetic EOF token, and a stream with   *)
(* a stray token gives the error with that token.                          *)
C9_ParseErrorNeverAborts ==
    op = "parse" =>
        /\ source \in Cuts => result = Err(EofToken)
        /\ source \in Strays => result = Err(Stray)

(* the part of C9 that the parser does keep: a stray token is reported *)
C9_StrayTokenIsReported ==
    (op = "parse" /\ source \in Strays) => result = Err(Stray)

(* a cut stream is never accepted: it ends in the EOF error or in a panic *)
C9_CutIsNeverAccepted ==
    (op = "parse" /\ source \in Cuts) => result \in {Err(EofToken), Panicked}

(* the cut right after the chip name *)
C9_CutAfterChipName ==
    op = "parse" /\ source = <<Kw("Chip"), Id("Foo")>> /\ result = Panicked

(* C10: get_hdl for a name that is "nand" or "dff" up to letter case       *)
(* returns the built-in chip and does not ask the provider: NAND with the  *)
(* ports a (in), b (in), out (out), DFF with in (in), out (out), in that   *)
(* order, every port of width 1 and without a path, no parts, no generic   *)
(* declarations, no path.                                                  *)
IsName(nm, lower, upper) ==
    /\ Len(nm) = Len(lower)
    /\ \A i \in 1..Len(lower) : nm[i] \in {lower[i], upper[i]}

One == [tag |-> "Terminal", term |-> [t |-> "Num", num |-> 1]]

Builtin(r, calls_made, chipName, portList) ==
    /\ calls_made = <<>>
    /\ r.kind = "ok"
    /\ r.val.name = chipName
    /\ r.val.parts = <<>>
    /\ r.val.generic_decls = <<>>
    /\ r.val.path = "none"
    /\ Len(r.val.ports) = Len(portList)
    /\ \A i \in 1..Len(portList) :
          /\ r.val.ports[i].name = [value |-> portList[i][1], path |-> "none"]
          /\ r.val.ports[i].direction = portList[i][2]
          /\ r.val.ports[i].width = One

C10_BuiltinsNeedNoProvider ==
    op = "get_hdl" =>
        /\ IsName(chip_name, <<"n", "a", "n", "d">>, <<"N", "A", "N", "D">>) =>
              Builtin(result, provider_calls, "NAND",
                      << <<"a", "In">>, <<"b", "In">>, <<"out", "Out">> >>)
        /\ IsName(chip_name, <<"d", "f", "f">>, <<"D", "F", "F">>) =>
              Builtin(result, provider_calls, "DFF",
                      << <<"in", "In">>, <<"out", "Out">> >>)

C10_Witness ==
    /\ op = "get_hdl"
    /\ chip_name = <<"n", "A", "n", "D">>
    /\ ~provider_ok
    /\ result.kind = "ok"
    /\ Len(result.val.ports) = 3
    /\ provider_calls = <<>>

-----------------------------------------------------------------------------
(* C11: for a name that is neither "nand" nor "dff" up to letter case,     *)
(* get_hdl asks the provider exactly once, for the file <name>.hdl with    *)
(* the name written as given; when the provider fails its error is the     *)
(* result, and otherwise the result is that of parsing the text returned.  *)
IsBuiltinName(nm) ==
    \/ IsName(nm, <<"n", "a", "n", "d">>, <<"N", "A", "N", "D">>)
    \/ IsName(nm, <<"d", "f", "f">>, <<"D", "F", "F">>)

C11_OtherNamesAskProviderOnce ==
    (op = "get_hdl" /\ ~IsBuiltinName(chip_name)) =>
        /\ provider_calls = << chip_name \o <<".", "h", "d", "l">> >>
        /\ ~provider_ok => result = [kind |-> "io_err"]
        /\ provider_ok => result = parse(source)

C11_Witness ==
    /\ op = "get_hdl"
    /\ chip_name = <<"N", "o", "t">>
    /\ provider_ok
    /\ provider_calls = << <<"N", "o", "t", ".", "h", "d", "l">> >>
    /\ source = NotChip
    /\ result.kind = "ok"
    /\ result.val.name = "Not"

-----------------------------------------------------------------------------
(* C12: for a well-formed chip the AST's ports are the declarations of    *)
(* the IN list followed by those of the OUT list, in the order written,   *)
(* each with the direction of its list and the width expression written   *)
(* (1 without brackets); generic_decls are the identifiers of the         *)
(* header's list in order, and empty without one.                         *)
ProperList(items) ==
    /\ Len(items) % 2 = 1
    /\ \A i \in 1..Len(items) :
          items[i].item = (IF i % 2 = 1 THEN "decl" ELSE "comma")

DeclsOf(items) == SelectSeq(items, LAMBDA it : it.item = "decl")

PortsOf(items, direction) ==
    [i \in 1..Len(DeclsOf(items)) |->
        [name |-> [value |-> DeclsOf(items)[i].name, path |-> "some"],
         width |-> DeclsOf(items)[i].width,
         direction |-> direction]]

C12_PortsAndGenericsAsDeclared ==
    (op = "parse" /\ source \in PortSources
       /\ ProperList(Written[source].ins) /\ ProperList(Written[source].outs)) =>
        /\ result.kind = "ok"
        /\ result.val.ports = PortsOf(Written[source].ins, "In")
                                \o PortsOf(Written[source].outs, "Out")
        /\ result.val.generic_decls =
              [i \in 1..Len(Written[source].header) |->
                  [value |-> Written[source].header[i], path |-> "some"]]

C12_Witness ==
    /\ op = "parse"
    /\ source \in PortSources
    /\ Written[source].header = <<"W", "N">>
    /\ Len(Written[source].ins) = 3 /\ ProperList(Written[source].ins)
    /\ Written[source].ins[1].name = "b" /\ Written[source].ins[3].name = "a"
    /\ Len(Written[source].outs) = 3
    /\ result.kind = "ok"
    /\ Len(result.val.ports) = 4
    /\ Len(result.val.generic_decls) = 2

-----------------------------------------------------------------------------
(* C13: an IN or OUT port list is accepted only if it is one or more port  *)
(* declarations separated by single commas: an empty list, a leading or    *)
(* doubled comma, and two declarations without a comma are rejected.       *)
C13_PortListGrammar ==
    (op = "parse" /\ source \in PortSources) =>
        (result.kind = "ok" <=>
            ProperList(Written[source].ins) /\ ProperList(Written[source].outs))

(* what port_names does: any run of declarations and commas is accepted, *)
(* the commas skipped                                                    *)
C13_EveryListIsAccepted ==
    (op = "parse" /\ source \in PortSources) =>
        /\ result.kind = "ok"
        /\ result.val.ports = PortsOf(Written[source].ins, "In")
                                \o PortsOf(Written[source].outs, "Out")

(* CHIP Foo { IN ; OUT x; PARTS: } *)
C13_EmptyListAccepted ==
    /\ op = "parse"
    /\ source \in PortSources
    /\ Written[source].ins = <<>>
    /\ result.kind = "ok"

-----------------------------------------------------------------------------
(* C14: a width, loop bound or index the parser produces is a single       *)
(* terminal, or one Add/Sub of two terminals with the operand written      *)
(* first on the left; an expression with a second operator is rejected     *)
(* with the ParseError at that second operator.                            *)
TerminalAst(tok) ==
    [tag |-> "Terminal",
     term |-> IF tok.token_type = "Number"
              THEN [t |-> "Num", num |-> IF tok.lexeme = "2" THEN 2 ELSE 0]
              ELSE [t |-> "Var", var |-> [value |-> tok.lexeme, path |-> "some"]]]

ExprAst(e) ==
    IF Len(e) = 1 THEN TerminalAst(e[1])
    ELSE [tag |-> "Expr",
          op |-> IF e[2].token_type = "Plus" THEN "Add" ELSE "Sub",
          left |-> TerminalAst(e[1]),
          right |-> TerminalAst(e[3])]

ParsedAt(ast, place) ==
    CASE place = "width" -> ast.ports[1].width
      [] place = "start" -> ast.parts[1].start
      [] place = "end" -> ast.parts[1].end
      [] place = "index" -> ast.parts[1].body[1].mappings[1].port.start
      [] place = "from" -> ast.parts[1].body[1].mappings[1].wire.start
      [] place = "to" -> ast.parts[1].body[1].mappings[1].wire.end

IsTerminalAst(x) == x.tag = "Terminal" /\ x.term.t \in {"Num", "Var"}

IsExprAst(x) ==
    \/ IsTerminalAst(x)
    \/ /\ x.tag = "Expr"
       /\ x.op \in {"Add", "Sub"}
       /\ IsTerminalAst(x.left)
       /\ IsTerminalAst(x.right)

C14_OneOperatorExpressions ==
    (op = "parse" /\ source \in ExprSources) =>
        /\ Len(ExprWritten[source].e) <= 3 =>
              /\ result.kind = "ok"
              /\ ParsedAt(result.val, ExprWritten[source].place)
                   = ExprAst(ExprWritten[source].e)
        /\ Len(ExprWritten[source].e) > 3 => result = Err(ExprWritten[source].e[4])
        /\ result.kind = "ok" =>
              \A place \in ExprPlaces : IsExprAst(ParsedAt(result.val, place))

C14_Witness ==
    /\ op = "parse"
    /\ source \in ExprSources
    /\ ExprWritten[source].place = "to"
    /\ ExprWritten[source].e = <<Id("a"), Kw("Plus"), Id("b"), Kw("Minus"), Number("2")>>
    /\ result = Err(Kw("Minus"))

-----------------------------------------------------------------------------
(* C15: a loop body holds components only: a FOR inside a loop body is     *)
(* rejected with the ParseError at that FOR, so no parsed Loop holds a     *)
(* Loop; the `}` of a loop ends the loop alone, and the parts written      *)
(* after it are parsed up to the chip's own `}`.                           *)
HasNestedLoop(items) ==
    \E i \in 1..Len(items) :
        /\ items[i].part = "Loop"
        /\ \E j \in 1..Len(items[i].body) : items[i].body[j].part = "Loop"

SamePart(parsed, written) ==
    /\ parsed.part = written.part
    /\ written.part = "Loop" =>
          /\ Len(parsed.body) = Len(written.body)
          /\ \A j \in 1..Len(parsed.body) : parsed.body[j].part = "Component"

C15_LoopsHoldComponentsOnly ==
    (op = "parse" /\ source \in PartsSources) =>
        /\ HasNestedLoop(PartsWritten[source]) => result = Err(Kw("For"))
        /\ ~HasNestedLoop(PartsWritten[source]) =>
              /\ result.kind = "ok"
              /\ Len(result.val.parts) = Len(PartsWritten[source])
              /\ \A i \in 1..Len(PartsWritten[source]) :
                    SamePart(result.val.parts[i], PartsWritten[source][i])

(* FOR .. { Nand(a=b); } Nand(a=b); *)
C15_Witness ==
    /\ op = "parse"
    /\ source \in PartsSources
    /\ PartsWritten[source] = <<LoopOf(<<Comp>>), Comp>>
    /\ result.kind = "ok"
    /\ Len(result.val.parts) = 2
    /\ result.val.parts[1].part = "Loop"
    /\ result.val.parts[2].part = "Component"

(* FOR .. { FOR .. { } } *)
C15_NestedLoopRejected ==
    /\ op = "parse"
    /\ source \in PartsSources
    /\ PartsWritten[source] = <<LoopOf(<<LoopOf(<<>>)>>)>>
    /\ result = Err(Kw("For"))

-----------------------------------------------------------------------------
(* C16: for every mapping `p[..] = w[..]` of a component the parsed        *)
(* PortMapping has port.name = p with p's index and wire.name = w with     *)
(* w's index, and the component's mappings are the mappings written, in    *)
(* the order written.                                                      *)
MappingAsWritten(parsed, m) ==
    /\ parsed.port = [name |-> m.p, start |-> m.pidx.start, end |-> m.pidx.end]
    /\ parsed.wire = [name |-> m.w, start |-> m.widx.start, end |-> m.widx.end]

C16_MappingsAsWritten ==
    (op = "parse" /\ source \in MappingSources) =>
        /\ result.kind = "ok"
        /\ Len(result.val.parts) = 1
        /\ Len(result.val.parts[1].mappings) = Len(MappingsWritten[source])
        /\ \A i \in 1..Len(MappingsWritten[source]) :
              MappingAsWritten(result.val.parts[1].mappings[i], MappingsWritten[source][i])

(* Bar(x[0..3]=a[2], y=b); *)
C16_Witness ==
    /\ op = "parse"
    /\ source \in MappingSources
    /\ MappingsWritten[source]
         = <<Mapped("x", RangeIdx, "a", OneIdx), Mapped("y", NoIdx, "b", NoIdx)>>
    /\ result.kind = "ok"
    /\ result.val.parts[1].mappings[1].port.name = "x"
    /\ result.val.parts[1].mappings[2].wire.name = "b"

-----------------------------------------------------------------------------
(* C17: a compare-file cell made of `*` characters, and any cell of a      *)
(* column the output-list declares as String, puts no bus into its         *)
(* expected row, so an Output can fail on that row only because of some    *)
(* other column.                                                           *)
AllStars(v) == Len(v) > 0 /\ \A j \in 1..Len(v) : v[j] = "*"

SkippedCell(k, i) ==
    \/ output_list[i] = "String"
    \/ AllStars(cmp_file.lines[k].cells[i])

C17_WildcardAndStringCellsMatchAnything ==
    [][ /\ status' = "running" =>
              \A k \in 1..Len(expected') : \A i \in 1..Len(cmp_file.lines[k].cells) :
                  SkippedCell(k, i) => cmp_file.header[i] \notin DOMAIN expected'[k]
        /\ (last'.kind = "Output" /\ status' = "running" /\ failures' # failures) =>
              \E i \in 1..Len(cmp_file.lines[cmp_idx + 1].cells) :
                  ~SkippedCell(cmp_idx + 1, i)
      ]_vars

(* |*|10| under an output-list whose second column is String, compared *)
(* with outputs that hold `out`                                        *)
C17_Witness ==
    /\ last.kind = "Output" /\ status = "running"
    /\ output_list = <<"Binary", "String">>
    /\ cmp_file.lines[1].cells = <<(<<"*">>), <<"1", "0">> >>
    /\ expected[1] = EmptyBusMap
    /\ "out" \in DOMAIN outputs
    /\ failures = 0

-----------------------------------------------------------------------------
(* C18: the row index starts at 0, every Output advances it by exactly     *)
(* one whether or not the comparison failed and nothing else changes it,   *)
(* and the Output made at row index k - 1 is compared with the k-th        *)
(* non-empty line after the header: empty lines use up no index.           *)
NonEmptyLines == SelectSeq(cmp_file.lines, LAMBDA l : l.kind # "empty")

(* a line |*|c| against the outputs: the `out` column must read c *)
LineDiffers(l, out) ==
    IF "out" \in DOMAIN out
    THEN out["out"] # <<(IF l.cells[2] = <<"1">> THEN 1 ELSE 0)>>
    ELSE TRUE

C18_KthOutputAgainstKthLine ==
    [][ /\ last'.kind = "ReadCmp" => cmp_idx' = 0
        /\ (last'.kind = "Output" /\ status' = "running") =>
              /\ cmp_idx' = cmp_idx + 1
              /\ cmp_idx + 1 <= Len(NonEmptyLines)
              /\ (failures' = failures + 1) <=> LineDiffers(NonEmptyLines[cmp_idx + 1], outputs)
              /\ (failures' = failures) <=> ~LineDiffers(NonEmptyLines[cmp_idx + 1], outputs)
        /\ (last'.kind # "Output" \/ status' # "running") => cmp_idx' = cmp_idx
      ]_vars

(* the second Output, in the second step and after a failed first one,  *)
(* passes against the line after the empty line                         *)
C18_Witness ==
    /\ last.kind = "Output" /\ status = "running"
    /\ cmp_file.lines = <<Row(<<(<<"*">>), <<"1">> >>), EmptyLine, Row(<<(<<"*">>), <<"0">> >>)>>
    /\ cmp_idx = 2
    /\ stepIdx = 2
    /\ failures = 1
    /\ "out" \in DOMAIN outputs
    /\ outputs["out"] = <<0>>

-----------------------------------------------------------------------------
(* C19: only Set changes `inputs`: every other operation, the start of a   *)
(* new step included, leaves it as it is, and a Set of one port writes     *)
(* that port's value and leaves every other port's value as it was.        *)
C19_OnlySetChangesInputs ==
    [][ /\ last'.kind # "Set" => inputs' = inputs
        /\ (last'.kind = "Set" /\ status' = "running") =>
              /\ DOMAIN inputs' = DOMAIN inputs \cup {last'.port}
              /\ \A p \in DOMAIN inputs \ {last'.port} : inputs'[p] = inputs[p]
              /\ inputs'[last'.port] = <<(IF last'.value.value = <<"1">> THEN 1 ELSE 0)>>
      ]_vars

(* `a` set to 1 by the one instruction of step 1, `b` set in step 2 *)
C19_Witness ==
    /\ plan = <<1, 1>>
    /\ stepIdx = 2 /\ insIdx = 1
    /\ status = "running"
    /\ last = Instr("Set", "b", Decimal(<<"0">>))
    /\ inputs = [a |-> <<1>>, b |-> <<0>>]

-----------------------------------------------------------------------------
(* C20: `outputs` is empty at the start of every step and is written only  *)
(* by Eval, Tick and Tock, so an Output is compared with the result of the *)
(* latest of these in its own step, and with an empty map when its step    *)
(* has none before it: it then fails whenever its row defines a bit.       *)
RowDefinesBit(row) ==
    \E n \in DOMAIN row : \E i \in 1..Len(row[n]) : row[n][i] \in {0, 1}

C20_OutputsClearedEachStep ==
    [][ /\ last'.kind = "Step" => outputs' = EmptyBusMap
        /\ last'.kind \notin {"Step", "Eval", "Tick", "Tock"} => outputs' = outputs
        /\ (last'.kind \in {"Eval", "Tick", "Tock"} /\ status' = "running") =>
              outputs' = Settle(chip, inputs, shadow')
        /\ (last'.kind = "Output" /\ status' = "running") =>
              /\ (failures' = failures) <=> PartialLe(expected[cmp_idx + 1], outputs)
              /\ (outputs = EmptyBusMap /\ RowDefinesBit(expected[cmp_idx + 1])) =>
                    failures' = failures + 1
      ]_vars

(* step 1 passed on out = 0; step 2 has no Eval, Tick or Tock before its *)
(* Output, which fails against the same row                              *)
C20_Witness ==
    /\ plan = <<2, 2>>
    /\ stepIdx = 2 /\ insIdx = 2
    /\ last.kind = "Output" /\ status = "running"
    /\ expected = <<[out |-> <<0>>], [out |-> <<0>>]>>
    /\ cmp_idx = 2
    /\ failures = 1
    /\ outputs = EmptyBusMap

-----------------------------------------------------------------------------
(* C21: at the end of a run the number of recorded failures is at most the *)
(* number of steps, so that steps.len() - failures is not negative and the *)
(* report of the run is computed without overflow.                         *)
C21_FailuresAtMostSteps ==
    last.kind = "Finish" =>
        /\ failures <= Len(plan)
        /\ Len(plan) - failures >= 0
        /\ status \in {"passed", "failed"}

-----------------------------------------------------------------------------
(* C22: every BusHDL the parser produces has start and end both present or *)
(* both absent: no brackets give neither, `[e]` gives start = end = e, and *)
(* `[s..e]` gives start = s and end = e.                                   *)
BusHDLsOf(c) ==
    UNION { UNION { {c.parts[i].mappings[j].port, c.parts[i].mappings[j].wire}
                    : j \in 1..Len(c.parts[i].mappings) }
            : i \in {k \in 1..Len(c.parts) : c.parts[k].part = "Component"} }

BothOrNeither(bus) == (bus.start = NoWidth) <=> (bus.end = NoWidth)

(* what the written form of a reference, a token sequence, asks for *)
BusAsBracketed(bus, idx) ==
    CASE idx = <<>> -> bus.start = NoWidth /\ bus.end = NoWidth
      [] Len(idx) = 3 -> /\ bus.start = Terminal(Num(NumberValue(idx[2].lexeme)))
                         /\ bus.end = bus.start
      [] OTHER -> /\ bus.start = Terminal(Num(NumberValue(idx[2].lexeme)))
                  /\ bus.end = Terminal(Num(NumberValue(idx[5].lexeme)))

C22_BusStartAndEndTogether ==
    (op = "parse" /\ source \in MappingSources /\ result.kind = "ok") =>
        /\ \A bus \in BusHDLsOf(result.val) : BothOrNeither(bus)
        /\ \A i \in 1..Len(MappingsWritten[source]) :
              /\ BusAsBracketed(result.val.parts[1].mappings[i].port,
                                MappingsWritten[source][i].pidx.toks)
              /\ BusAsBracketed(result.val.parts[1].mappings[i].wire,
                                MappingsWritten[source][i].widx.toks)

C22_Witness ==
    /\ op = "parse"
    /\ source = RenderMappingsChip(<<Mapped("x", RangeIdx, "a", OneIdx),
                                     Mapped("y", NoIdx, "b", NoIdx)>>)
    /\ result.kind = "ok"
    /\ result.val.parts[1].mappings[1].wire.start = Terminal(Num(2))
    /\ result.val.parts[1].mappings[1].wire.end = Terminal(Num(2))
    /\ result.val.parts[1].mappings[1].port.start = Terminal(Num(0))
    /\ result.val.parts[1].mappings[1].port.end = Terminal(Num(3))
    /\ result.val.parts[1].mappings[2].port.start = NoWidth
    /\ result.val.parts[1].mappings[2].port.end = NoWidth

-----------------------------------------------------------------------------
(* C23: in every PortMapping the parser produces, wire_ident identifies *)
(* the wire of the mapping: wire_ident.value = wire.name.               *)
C23_WireIdentNamesWire ==
    (op = "parse" /\ source \in MappingSources /\ result.kind = "ok") =>
        \A i \in 1..Len(result.val.parts[1].mappings) :
            result.val.parts[1].mappings[i].wire_ident.value
                = result.val.parts[1].mappings[i].wire.name

(* what the parser stores instead: the identifier of the port token *)
C23_WireIdentNamesPort ==
    (op = "parse" /\ source \in MappingSources /\ result.kind = "ok") =>
        \A i \in 1..Len(result.val.parts[1].mappings) :
            result.val.parts[1].mappings[i].wire_ident
                = IdentifierFromToken(Id(result.val.parts[1].mappings[i].port.name))

====
